---- MODULE Spec2Model ----
(***************************************************************************)
(* FTP storage backend adapter (storage_backend_ftp/components/            *)
(* ftp_adapter.py): the ftp() session factory, the ImplicitFTPTLS socket   *)
(* property, ftp_mkdirs and the adapter operations add, get, list,         *)
(* move_files, delete and validate_config, run against an FTP server that  *)
(* keeps a directory tree, a working directory per connection, and that    *)
(* may fail any command.                                                   *)
(*                                                                         *)
(* Paths are strings, written as sequences of one-character strings, so    *)
(* that os.path.dirname / basename / join are computed as posixpath does.  *)
(***************************************************************************)
EXTENDS Integers, Sequences, FiniteSets, TLC

\* ------------------------------------------------------------------ bounds
\* operations a caller runs one after the other, each in its own session
MaxOps == 2
\* commands that fail for a reason unrelated to the server's file tree
MaxFaults == 1
\* frames of ftp_mkdirs the interpreter allows before RecursionError
MaxDepth == 4

\* ------------------------------------------------------------- posixpath
Sep == "/"

\* p.rfind("/") + 1
RFindSep(p) ==
  LET idx == {i \in 1..Len(p) : p[i] = Sep}
  IN  IF idx = {} THEN 0 ELSE CHOOSE i \in idx : \A j \in idx : j <= i

\* head == "/" * len(head)
AllSep(p) == \A i \in 1..Len(p) : p[i] = Sep

\* head.rstrip("/")
RECURSIVE RStripSep(_)
RStripSep(p) ==
  IF p # <<>> /\ p[Len(p)] = Sep THEN RStripSep(SubSeq(p, 1, Len(p) - 1)) ELSE p

dirname(p) ==
  LET head == SubSeq(p, 1, RFindSep(p))
  IN  IF head # <<>> /\ ~AllSep(head) THEN RStripSep(head) ELSE head

basename(p) == SubSeq(p, RFindSep(p) + 1, Len(p))

StartsWithSep(p) == p # <<>> /\ p[1] = Sep

EndsWithSep(p) == p # <<>> /\ p[Len(p)] = Sep

join(a, b) ==
  IF StartsWithSep(b) THEN b
  ELSE IF a = <<>> \/ EndsWithSep(a) THEN a \o b
  ELSE a \o <<Sep>> \o b

\* ------------------------------------------------------- backend settings
Encryptions == {"ftp", "tls", "tls_explicit"}

FTP_SECURITY_TO_PROTOCOL ==
  [ tls     |-> "PROTOCOL_TLS",
    tlsv1   |-> "PROTOCOL_TLSv1",
    tlsv1_1 |-> "PROTOCOL_TLSv1_1",
    tlsv1_2 |-> "PROTOCOL_TLSv1_2",
    sslv2   |-> "sslv2 has been deprecated due to security issues",
    sslv23  |-> "PROTOCOL_SSLv23",
    sslv3   |-> "sslv3 has been deprecated due to security issues" ]

SecurityPrefs == DOMAIN FTP_SECURITY_TO_PROTOCOL

\* the values of the table that are str, not ssl protocol constants
IsStr(v) == v \in { "sslv2 has been deprecated due to security issues",
                    "sslv3 has been deprecated due to security issues" }

\* directory_path of the backend: none, or an absolute directory
Roots == { <<>>, <<"/", "r">> }

\* ------------------------------------------------------------ exceptions
\* What a client call raises: IOError/OSError with errno ENOENT, OSError with
\* another errno, ftplib.Error (error_reply, error_temp, error_perm,
\* error_proto), EOFError (the peer closed the control connection).
ErrKinds == {"OSError_ENOENT", "OSError", "FtpError", "EOFError"}

IsIOError(e) == e \in {"OSError_ENOENT", "OSError"}

IsFtplibError(e) == e = "FtpError"

NoErr == [type |-> "none", cause |-> "none"]

Raised(e) == [type |-> e, cause |-> "none"]

Wrapped(t, e) == [type |-> t, cause |-> e]

\* How the transport reports "no such file or directory": as IOError with
\* errno ENOENT (what ftp_mkdirs, add and list test for) or as an ftplib.Error
\* reply (what get and move_files catch). "mkd_enoent" is the first of the two
\* on a server that lets no directory be made and answers every mkd with
\* "does not exist".
Dialects == {"oserror", "ftperror", "mkd_enoent"}


\* ------------------------------------------------------------------ state
Procs == {1, 2}

VARIABLES
  cfg,        \* the backend record (self.collection): enc, security, passive, root
  dialect,    \* how the transport reports a missing path
  dirs,       \* server: the directories, as absolute paths
  files,      \* server: absolute path -> content
  conns,      \* server: the open control connections (session ids)
  nextSid,    \* sessions constructed so far
  faultsLeft, \* failures unrelated to the file tree that may still happen
  opsLeft,    \* operations that may still be started
  pc,         \* per caller: where its operation stands
  op,         \* per caller: the operation and its arguments
  sess,       \* per caller: the ftplib client object of the operation
  log,        \* per caller: the calls made on the client in this operation
  out,        \* per caller: what the operation returned or raised (err, result)
              \* and what the body of the with had raised when it was left (body)
  loc,        \* per caller: locals (loop index, probe result, ftp_mkdirs frames)
  prev        \* per caller: the operation it ran before the current one

vars == << cfg, dialect, dirs, files, conns, nextSid, faultsLeft, opsLeft,
           pc, op, sess, log, out, loc, prev >>

\* ------------------------------------------------------------ the server
Root == <<Sep>>

\* the server's reading of a command argument in working directory cwd
Resolve(cwd, p) ==
  IF StartsWithSep(p) THEN p ELSE IF p = <<>> THEN cwd ELSE join(cwd, p)

MissingErr == IF dialect = "ftperror" THEN "FtpError" ELSE "OSError_ENOENT"

\* refusals other than a missing path (exists already, is a directory, ...)
RefusedErr == IF dialect = "ftperror" THEN "FtpError" ELSE "OSError"

RECURSIVE SetToSeq(_)
SetToSeq(S) ==
  IF S = {} THEN <<>>
  ELSE LET x == CHOOSE y \in S : TRUE IN <<x>> \o SetToSeq(S \ {x})

Entries(t) == {q \in (dirs \cup DOMAIN files) : q # t /\ dirname(q) = t}

Ok(d, f, c, r) == [res |-> "ok", ret |-> r, dirs |-> d, files |-> f, cwd |-> c]

Fail(e, c) == [res |-> e, ret |-> <<>>, dirs |-> dirs, files |-> files, cwd |-> c]

\* The replies the server can give to a command of a connection whose working
\* directory is cwd, with the tree and working directory each reply leaves.
ServerExec(cmd, a, b, data, cwd) ==
  LET t == Resolve(cwd, a)
      u == Resolve(cwd, b)
  IN
  CASE cmd = "CWD" ->
         IF t \in dirs THEN {Ok(dirs, files, t, <<>>)} ELSE {Fail(MissingErr, cwd)}
    [] cmd = "MKD" ->
         IF dialect = "mkd_enoent" THEN {Fail("OSError_ENOENT", cwd)}
         ELSE IF a = <<>> \/ t \in dirs \/ t \in DOMAIN files THEN {Fail(RefusedErr, cwd)}
         ELSE IF dirname(t) \notin dirs THEN {Fail(MissingErr, cwd)}
         ELSE {Ok(dirs \cup {t}, files, cwd, <<>>)}
    [] cmd = "STOR" ->
         IF t \in dirs THEN {Fail(RefusedErr, cwd)}
         ELSE IF dirname(t) \notin dirs THEN {Fail(MissingErr, cwd)}
         ELSE {Ok(dirs, [q \in DOMAIN files \cup {t} |->
                           IF q = t THEN data ELSE files[q]], cwd, <<>>)}
    [] cmd = "RETR" ->
         IF t \in DOMAIN files THEN {Ok(dirs, files, cwd, files[t])}
         ELSE {Fail(MissingErr, cwd)}
    [] cmd = "NLST" ->
         IF t \in DOMAIN files THEN {Ok(dirs, files, cwd, <<a>>)}
         ELSE IF t \in dirs
           THEN {Ok(dirs, files, cwd, SetToSeq({basename(q) : q \in Entries(t)}))}
         \* a missing path: an error reply, or (some servers) an empty listing
         ELSE {Fail(MissingErr, cwd), Ok(dirs, files, cwd, <<>>)}
    [] cmd = "DELE" ->
         IF t \in DOMAIN files
           THEN {Ok(dirs, [q \in DOMAIN files \ {t} |-> files[q]], cwd, <<>>)}
         ELSE IF t \in dirs THEN {Fail(RefusedErr, cwd)}
         ELSE {Fail(MissingErr, cwd)}
    [] cmd = "RENAME" ->
         IF t \notin DOMAIN files \/ dirname(u) \notin dirs THEN {Fail(MissingErr, cwd)}
         ELSE IF u \in dirs THEN {Fail(RefusedErr, cwd)}
         ELSE IF u = t THEN {Ok(dirs, files, cwd, <<>>)}
         ELSE LET moved == [q \in (DOMAIN files \ {t}) \cup {u} |->
                              IF q = u THEN files[t] ELSE files[q]]
              IN  IF u \in DOMAIN files
                    \* onto an existing file: replaced, or refused
                    THEN {Ok(dirs, moved, cwd, <<>>), Fail(RefusedErr, cwd)}
                    ELSE {Ok(dirs, moved, cwd, <<>>)}
    \* connect, login, PROT P, QUIT: nothing of the tree is involved
    [] OTHER -> {Ok(dirs, files, cwd, <<>>)}

\* What a call on the client can meet: one of the server's replies, or, while
\* failures remain, a failure of any kind that leaves the server as it was.
Outcomes(cmd, a, b, data, cwd) ==
  {[res |-> o.res, ret |-> o.ret, dirs |-> o.dirs, files |-> o.files,
    cwd |-> o.cwd, spur |-> FALSE] : o \in ServerExec(cmd, a, b, data, cwd)}
  \cup
  {[res |-> e, ret |-> <<>>, dirs |-> dirs, files |-> files,
    cwd |-> cwd, spur |-> TRUE] : e \in IF faultsLeft > 0 THEN ErrKinds ELSE {}}

\* the effect of a call with outcome o on the server, the budget and the log
Issue(p, cmd, a, b, o) ==
  /\ dirs' = o.dirs
  /\ files' = o.files
  /\ faultsLeft' = IF o.spur THEN faultsLeft - 1 ELSE faultsLeft
  /\ log' = [log EXCEPT ![p] = Append(@, [cmd |-> cmd, a |-> a, b |-> b,
                                          res |-> o.res, ret |-> o.ret,
                                          spur |-> o.spur])]


\* ------------------------------------------------------ ImplicitFTPTLS.sock
NoSock == [kind |-> "none", layers |-> 0]

PlainSock == [kind |-> "plain", layers |-> 0]

\* self.context.wrap_socket(value): one more TLS layer around the socket
wrap_socket(value) == [kind |-> "ssl", layers |-> value.layers + 1]

SslSock == wrap_socket(PlainSock)

\* sock_setter, had it wrapped every socket without the isinstance test
sock_setter_wraps_all(value) ==
  IF value # NoSock THEN wrap_socket(value) ELSE value

\* the sock property setter of ImplicitFTPTLS: the value that is stored
sock_setter(value) ==
  IF value # NoSock /\ value.kind # "ssl" THEN wrap_socket(value) ELSE value

\* self.sock = value on a client of class cls
AssignSock(cls, value) ==
  IF cls = "ImplicitFTPTLS" THEN sock_setter(value) ELSE value

\* assignments to sock, beyond connect and close, that a session is put through
MaxAssign == 2

\* ------------------------------------------------------------------ ftp()
ClientClass(enc) ==
  CASE enc = "ftp" -> "FTP"
    [] enc = "tls" -> "ImplicitFTPTLS"
    [] enc = "tls_explicit" -> "FTP_TLS"

\* security after the branch on ftp_encryption ("None" when never looked up)
Security(c) ==
  IF c.enc = "tls" THEN FTP_SECURITY_TO_PROTOCOL[c.security] ELSE "None"

\* ProtP, had only the implicit-TLS branch set prot_p
ProtPImplicitOnly(c) == c.enc = "tls"

\* prot_p after the branch on ftp_encryption
ProtP(c) == c.enc \in {"tls", "tls_explicit"}

\* Rejected, had the table marked only sslv2 as disabled
RejectedSslv2Only(c) == c.enc = "tls" /\ c.security = "sslv2"

\* the UserError of a disabled security preference is raised before the client
\* is entered
Rejected(c) == c.enc = "tls" /\ IsStr(Security(c))

\* base adapter: the path an operation addresses on the server
_fullpath(relative_path) == join(cfg.root, relative_path)

\* ------------------------------------------------------------- operations
NoOp == [kind |-> "none", path |-> <<>>, data |-> <<>>, files |-> <<>>, dest |-> <<>>]

OpRec(k, path, data, fs, dest) ==
  [kind |-> k, path |-> path, data |-> data, files |-> fs, dest |-> dest]

\* contents: empty, and bytes with a NUL among them
Contents == { <<>>, <<7, 0>> }

AddPaths == { <<"x">>, <<"a", "/", "x">>, <<"c", "/", "x">> }

GetPaths == { <<"a", "/", "x">>, <<"c", "/", "x">> }

ListPaths == { <<"a">>, <<"c">> }

MoveLists == { << <<"a", "/", "x">> >>,
               << <<"a", "/", "y">>, <<"a", "/", "x">> >>,
               << <<"a", "/", "x">>, <<"b", "/", "x">> >> }

MoveDests == { <<"b">>, <<"d">> }

DeletePaths == { <<"a", "/", "x">>, <<"c", "/", "x">> }

MkdirsPaths == { <<"c", "/", "d", "/", "e">>, <<"a">>, <<"/">>, <<>> }

OpChoices ==
  {OpRec("add", q, d, <<>>, <<>>) : q \in AddPaths, d \in Contents}
  \cup {OpRec("get", q, <<>>, <<>>, <<>>) : q \in GetPaths}
  \cup {OpRec("list", q, <<>>, <<>>, <<>>) : q \in ListPaths}
  \cup {OpRec("move_files", <<>>, <<>>, fs, d) : fs \in MoveLists, d \in MoveDests}
  \cup {OpRec("delete", q, <<>>, <<>>, <<>>) : q \in DeletePaths}
  \cup {OpRec("validate_config", <<>>, <<>>, <<>>, <<>>)}
  \cup {OpRec("ftp_mkdirs", q, <<>>, <<>>, <<>>) : q \in MkdirsPaths}

NoLoc == [i |-> 0, result |-> <<>>, stack |-> <<>>, ret |-> "exit"]

NoSess == [sid |-> 0, cls |-> "none", sock |-> NoSock, ssl_version |-> "unset",
           cwd |-> Root]

NoOut == [err |-> NoErr, result |-> <<>>, body |-> NoErr]

\* whether some call of the log failed for a reason unrelated to the file tree
Faulted(l) == \E k \in 1..Len(l) : l[k].spur

\* whether the call cmd appears in the log with result res
Called(l, cmd, res) == \E k \in 1..Len(l) : l[k].cmd = cmd /\ l[k].res = res

NoPrev == [kind |-> "none", sid |-> 0, path |-> <<>>, data |-> <<>>, err |-> NoErr,
           clean |-> TRUE, cwd |-> FALSE, mkd |-> FALSE]

\* the first statement of the body of an operation, after ftp() has yielded
BodyEntry(o) ==
  CASE o.kind = "add" ->
         IF dirname(_fullpath(o.path)) # <<>> THEN "add_cwd" ELSE "add_stor"
    [] o.kind = "get" -> "get_retr"
    [] o.kind = "list" -> "list_nlst"
    [] o.kind = "move_files" -> IF o.files = <<>> THEN "exit" ELSE "mv_nlst"
    [] o.kind = "delete" -> "del_dele"
    [] o.kind = "validate_config" -> "welcome"
    [] o.kind = "ftp_mkdirs" -> "mkdirs"

\* the tree the server holds at the start: under the backend's directory, the
\* directories a, b and d and the files a/x, a/y, b/x
InitBase == Resolve(Root, cfg.root)

InitDirs == {Root, InitBase, join(InitBase, <<"a">>), join(InitBase, <<"b">>),
             join(InitBase, <<"d">>)}

InitFiles ==
  LET ax == join(InitBase, <<"a", "/", "x">>)
      ay == join(InitBase, <<"a", "/", "y">>)
      bx == join(InitBase, <<"b", "/", "x">>)
  IN  [q \in {ax, ay, bx} |-> IF q = ax THEN <<1>> ELSE IF q = ay THEN <<2>> ELSE <<3>>]

Configs ==
  {c \in [enc : Encryptions, security : SecurityPrefs, passive : BOOLEAN, root : Roots] :
     c.enc # "tls" => c.security = "tls"}

\* the backends whose caller runs MaxOps operations; the callers of the other
\* backends run one operation less
SeqConfigs ==
  {c \in Configs : c.enc = "tls" /\ c.security = "tlsv1_2" /\ c.passive}

OpsFor(c) == IF c \in SeqConfigs THEN MaxOps ELSE MaxOps - 1

InitCommon ==
  /\ cfg \in Configs
  /\ dialect \in Dialects
  /\ dirs = InitDirs
  /\ files = InitFiles
  /\ conns = {}
  /\ nextSid = 0
  /\ faultsLeft = MaxFaults
  /\ opsLeft = OpsFor(cfg)
  /\ op = [p \in Procs |-> NoOp]
  /\ sess = [p \in Procs |-> NoSess]
  /\ log = [p \in Procs |-> <<>>]
  /\ out = [p \in Procs |-> NoOut]
  /\ loc = [p \in Procs |-> NoLoc]
  /\ prev = [p \in Procs |-> NoPrev]

\* one caller, running its operations one after the other
Init ==
  /\ InitCommon
  /\ pc = [p \in Procs |-> IF p = 1 THEN "idle" ELSE "off"]

\* ---------------------------------------------------------------- actions
Raise(p, e) ==
  /\ out' = [out EXCEPT ![p].err = e]
  /\ pc' = [pc EXCEPT ![p] = "exit"]

Goto(p, l) == pc' = [pc EXCEPT ![p] = l]

\* A public operation is called: ftp(self.collection) constructs the client,
\* looks the security preference up and raises UserError for a disabled one.
Start(p, o) ==
  /\ pc[p] \in {"idle", "done"}
  /\ opsLeft > 0
  /\ opsLeft' = opsLeft - 1
  /\ nextSid' = nextSid + 1
  /\ op' = [op EXCEPT ![p] = o]
  /\ prev' = [prev EXCEPT ![p] =
                IF pc[p] = "done"
                  THEN [kind |-> op[p].kind, sid |-> sess[p].sid,
                        path |-> op[p].path, data |-> op[p].data,
                        err |-> out[p].err, clean |-> ~Faulted(log[p]),
                        cwd |-> Called(log[p], "CWD", "ok"),
                        mkd |-> Called(log[p], "MKD", "ok")]
                  ELSE NoPrev]
  /\ sess' = [sess EXCEPT ![p] =
                [sid |-> nextSid + 1, cls |-> ClientClass(cfg.enc), sock |-> NoSock,
                 ssl_version |-> IF Security(cfg) # "None" /\ ~Rejected(cfg)
                                   THEN Security(cfg) ELSE "unset",
                 cwd |-> Root]]
  /\ log' = [log EXCEPT ![p] = <<>>]
  /\ loc' = [loc EXCEPT ![p] =
                IF o.kind = "ftp_mkdirs"
                  THEN [NoLoc EXCEPT !.stack = <<[path |-> o.path, phase |-> "first"]>>]
                  ELSE NoLoc]
  /\ IF Rejected(cfg)
       THEN /\ out' = [out EXCEPT ![p] = [err |-> Wrapped("UserError", Security(cfg)),
                                          result |-> <<>>, body |-> NoErr]]
            /\ pc' = [pc EXCEPT ![p] = "done"]
       ELSE /\ out' = [out EXCEPT ![p] = NoOut]
            /\ pc' = [pc EXCEPT ![p] = "connect"]
  /\ UNCHANGED <<cfg, dialect, dirs, files, conns, faultsLeft>>

\* client.connect(host, port): the socket is made and stored, then the welcome
\* is read; a failure may come before the socket exists (OSError) or after it.
Connect(p) ==
  /\ pc[p] = "connect"
  /\ \E o \in Outcomes("connect", <<>>, <<>>, <<>>, Root), made \in BOOLEAN :
       /\ (o.res = "ok" \/ ~IsIOError(o.res)) => made
       /\ Issue(p, "connect", <<>>, <<>>, o)
       /\ sess' = [sess EXCEPT ![p].sock =
                     IF made THEN AssignSock(sess[p].cls, PlainSock) ELSE @]
       /\ conns' = IF made THEN conns \cup {sess[p].sid} ELSE conns
       /\ IF o.res = "ok"
            THEN Goto(p, "login") /\ UNCHANGED out
            ELSE Raise(p, Raised(o.res))
  /\ UNCHANGED <<cfg, dialect, nextSid, opsLeft, op, loc, prev>>

\* client.login(login, password); FTP_TLS.login first secures the control
\* connection (auth) when its socket is not an SSLSocket yet.
Login(p) ==
  /\ pc[p] = "login"
  /\ \E o \in Outcomes("login", <<>>, <<>>, <<>>, sess[p].cwd) :
       /\ Issue(p, "login", <<>>, <<>>, o)
       /\ IF o.res = "ok"
            THEN /\ sess' = [sess EXCEPT ![p].sock =
                               IF sess[p].cls = "FTP_TLS" /\ @.kind # "ssl"
                                 THEN wrap_socket(@) ELSE @]
                 /\ Goto(p, IF ProtP(cfg) THEN "prot_p" ELSE "pasv")
                 /\ UNCHANGED out
            ELSE /\ Raise(p, Raised(o.res))
                 /\ UNCHANGED sess
  /\ UNCHANGED <<cfg, dialect, conns, nextSid, opsLeft, op, loc, prev>>

\* if prot_p: client.prot_p()
ProtPStep(p) ==
  /\ pc[p] = "prot_p"
  /\ \E o \in Outcomes("prot_p", <<>>, <<>>, <<>>, sess[p].cwd) :
       /\ Issue(p, "prot_p", <<>>, <<>>, o)
       /\ IF o.res = "ok"
            THEN Goto(p, "pasv") /\ UNCHANGED out
            ELSE Raise(p, Raised(o.res))
  /\ UNCHANGED <<cfg, dialect, conns, nextSid, opsLeft, op, sess, loc, prev>>

\* a call that only touches the client object
Local(p, cmd) ==
  log' = [log EXCEPT ![p] = Append(@, [cmd |-> cmd, a |-> <<>>, b |-> <<>>,
                                       res |-> "ok", ret |-> <<>>, spur |-> FALSE])]

\* if backend.ftp_passive: client.set_pasv(True); then the client is yielded
SetPasv(p) ==
  /\ pc[p] = "pasv"
  /\ IF cfg.passive THEN Local(p, "set_pasv") ELSE UNCHANGED log
  /\ Goto(p, BodyEntry(op[p]))
  /\ UNCHANGED <<cfg, dialect, dirs, files, conns, nextSid, faultsLeft, opsLeft,
                 op, sess, out, loc, prev>>

\* whether some call of the session has failed: its control connection may
\* since be closed or hold a reply that was never read
Dirty(l) == \E k \in 1..Len(l) : l[k].res # "ok"

\* What QUIT can meet. On a connection where a call has failed already, any
\* failure, and it is no further independent failure; otherwise as any call.
QuitOutcomes(p) ==
  IF Dirty(log[p])
    THEN {[res |-> r, ret |-> <<>>, dirs |-> dirs, files |-> files,
           cwd |-> sess[p].cwd, spur |-> (r # "ok"), free |-> TRUE] :
            r \in {"ok"} \cup ErrKinds}
    ELSE {[res |-> o.res, ret |-> o.ret, dirs |-> o.dirs, files |-> o.files,
           cwd |-> o.cwd, spur |-> o.spur, free |-> FALSE] :
            o \in Outcomes("quit", <<>>, <<>>, <<>>, sess[p].cwd)}

\* what the caller gets when quit() inside __exit__ fails with e, err being
\* what the body raised: OSError and EOFError are passed over
ExitError(err, e) == IF IsFtplibError(e) THEN Raised(e) ELSE err

\* ClosedOnExit, had close() followed quit() without the finally
ClosedOnExitNoFinally(cls, sock, e) ==
  IF IsFtplibError(e) THEN sock ELSE AssignSock(cls, NoSock)

\* the socket of the client after __exit__, quit() having met e: close() runs
\* in the finally and sets sock to None
ClosedOnExit(cls, sock, e) == AssignSock(cls, NoSock)

\* FTP.__exit__: with a socket, quit() under except (OSError, EOFError): pass,
\* and close() in the finally; an ftplib.Error of quit() is not caught.
Exit(p) ==
  /\ pc[p] = "exit"
  /\ IF sess[p].sock = NoSock
       THEN /\ out' = [out EXCEPT ![p].body = out[p].err]
            /\ UNCHANGED <<dirs, files, faultsLeft, log, sess, conns>>
       ELSE \E o \in QuitOutcomes(p) :
              /\ UNCHANGED <<dirs, files>>
              /\ faultsLeft' = IF o.spur /\ ~o.free THEN faultsLeft - 1 ELSE faultsLeft
              /\ log' = [log EXCEPT ![p] = Append(@, [cmd |-> "quit", a |-> <<>>,
                                                      b |-> <<>>, res |-> o.res,
                                                      ret |-> <<>>, spur |-> o.spur])]
              /\ sess' = [sess EXCEPT ![p].sock = ClosedOnExit(sess[p].cls, @, o.res)]
              /\ conns' = IF sess'[p].sock = NoSock THEN conns \ {sess[p].sid} ELSE conns
              /\ out' = [out EXCEPT ![p].err = ExitError(@, o.res),
                                     ![p].body = out[p].err]
  /\ Goto(p, "done")
  /\ UNCHANGED <<cfg, dialect, nextSid, opsLeft, op, loc, prev>>

\* ------------------------------------------------------------- ftp_mkdirs
\* One client.mkd(path) of the innermost call of ftp_mkdirs. The first mkd of
\* a call is inside the try: on IOError with errno ENOENT and a non-empty path
\* the call recurses on os.path.dirname(path) and afterwards issues mkd(path)
\* again, outside any try. A frame is [path, phase]; the interpreter gives up
\* with RecursionError when the frames exceed its limit.
\* Recurses, had the test on errno been left out for some other errno test
RecursesNever(phase, e, path) == FALSE

\* Recurses, had every IOError been taken for a missing parent
RecursesOnAnyIOError(phase, e, path) ==
  phase = "first" /\ IsIOError(e) /\ path # <<>>

\* whether the failure e of the mkd of a call on path makes the call recurse:
\* the mkd inside the try, IOError with errno ENOENT, path not empty
Recurses(phase, e, path) ==
  phase = "first" /\ IsIOError(e) /\ e = "OSError_ENOENT" /\ path # <<>>

Mkdirs(p) ==
  /\ pc[p] = "mkdirs"
  /\ loc[p].stack # <<>>
  /\ LET stack == loc[p].stack
         n     == Len(stack)
         top   == stack[n]
     IN \E o \in Outcomes("MKD", top.path, <<>>, <<>>, sess[p].cwd) :
          /\ Issue(p, "MKD", top.path, <<>>, o)
          /\ IF o.res = "ok"
               THEN /\ loc' = [loc EXCEPT ![p].stack = SubSeq(stack, 1, n - 1)]
                    /\ Goto(p, IF n = 1 THEN loc[p].ret ELSE "mkdirs")
                    /\ UNCHANGED out
               ELSE IF Recurses(top.phase, o.res, top.path)
                 THEN IF n >= MaxDepth
                        THEN /\ loc' = [loc EXCEPT ![p].stack = <<>>]
                             /\ Raise(p, Raised("RecursionError"))
                        ELSE /\ loc' = [loc EXCEPT ![p].stack =
                                          Append([stack EXCEPT ![n].phase = "retry"],
                                                 [path |-> dirname(top.path),
                                                  phase |-> "first"])]
                             /\ UNCHANGED <<pc, out>>
                 ELSE /\ loc' = [loc EXCEPT ![p].stack = <<>>]
                      /\ Raise(p, Raised(o.res))
  /\ UNCHANGED <<cfg, dialect, conns, nextSid, opsLeft, op, sess, prev>>

\* -------------------------------------------------------------------- add
\* client.cwd(dirname): IOError with errno ENOENT leads to ftp_mkdirs(dirname),
\* any other failure is raised
AddCwd(p) ==
  /\ pc[p] = "add_cwd"
  /\ LET d == dirname(_fullpath(op[p].path))
     IN \E o \in Outcomes("CWD", d, <<>>, <<>>, sess[p].cwd) :
          /\ Issue(p, "CWD", d, <<>>, o)
          /\ sess' = [sess EXCEPT ![p].cwd = o.cwd]
          /\ IF o.res = "ok"
               THEN Goto(p, "add_stor") /\ UNCHANGED <<out, loc>>
               ELSE IF IsIOError(o.res) /\ o.res = "OSError_ENOENT"
                 THEN /\ loc' = [loc EXCEPT ![p].stack = <<[path |-> d, phase |-> "first"]>>,
                                            ![p].ret = "add_stor"]
                      /\ Goto(p, "mkdirs")
                      /\ UNCHANGED out
                 ELSE Raise(p, Raised(o.res)) /\ UNCHANGED loc
  /\ UNCHANGED <<cfg, dialect, conns, nextSid, opsLeft, op, prev>>

\* what add raises for a failure e of storbinary
StorError(e) ==
  IF IsFtplibError(e) \/ IsIOError(e) THEN Wrapped("ValueError", e) ELSE Raised(e)

\* client.storbinary("STOR " + full_path, tmp_file)
AddStor(p) ==
  /\ pc[p] = "add_stor"
  /\ LET full == _fullpath(op[p].path)
     IN \E o \in Outcomes("STOR", full, <<>>, op[p].data, sess[p].cwd) :
          /\ Issue(p, "STOR", full, <<>>, o)
          /\ IF o.res = "ok"
               THEN Goto(p, "exit") /\ UNCHANGED out
               ELSE Raise(p, StorError(o.res))
  /\ UNCHANGED <<cfg, dialect, conns, nextSid, opsLeft, op, sess, loc, prev>>

\* -------------------------------------------------------------------- get
\* what get raises for a failure e of retrbinary
RetrError(e) ==
  IF IsFtplibError(e) THEN Wrapped("FileNotFoundError", e) ELSE Raised(e)

\* client.retrbinary("RETR " + full_path, buff.write); data = buff.getvalue()
GetRetr(p) ==
  /\ pc[p] = "get_retr"
  /\ LET full == _fullpath(op[p].path)
     IN \E o \in Outcomes("RETR", full, <<>>, <<>>, sess[p].cwd) :
          /\ Issue(p, "RETR", full, <<>>, o)
          /\ IF o.res = "ok"
               THEN /\ out' = [out EXCEPT ![p].result = o.ret]
                    /\ Goto(p, "exit")
               ELSE Raise(p, RetrError(o.res))
  /\ UNCHANGED <<cfg, dialect, conns, nextSid, opsLeft, op, sess, loc, prev>>

\* ------------------------------------------------------------------- list
\* whether list turns the failure e of nlst into an empty list
ListEmptyOn(e) == IsIOError(e) /\ e = "OSError_ENOENT"

\* return client.nlst(full_path)
ListNlst(p) ==
  /\ pc[p] = "list_nlst"
  /\ LET full == _fullpath(op[p].path)
     IN \E o \in Outcomes("NLST", full, <<>>, <<>>, sess[p].cwd) :
          /\ Issue(p, "NLST", full, <<>>, o)
          /\ IF o.res = "ok"
               THEN /\ out' = [out EXCEPT ![p].result = o.ret]
                    /\ Goto(p, "exit")
               ELSE IF ListEmptyOn(o.res)
                 THEN /\ out' = [out EXCEPT ![p].result = <<>>]
                      /\ Goto(p, "exit")
                 ELSE Raise(p, Raised(o.res))
  /\ UNCHANGED <<cfg, dialect, conns, nextSid, opsLeft, op, sess, loc, prev>>

\* ------------------------------------------------------------- move_files
\* the file of the current iteration, and the path its destination is probed
\* and deleted at
MvFile(p) == op[p].files[loc[p].i + 1]

dest_file_path(p) == join(op[p].dest, basename(MvFile(p)))

\* whether the probe's failure e is caught (result stays [])
ProbeCaught(e) == IsFtplibError(e)

\* result = client.nlst(dest_file_path)
MvNlst(p) ==
  /\ pc[p] = "mv_nlst"
  /\ LET dst == dest_file_path(p)
     IN \E o \in Outcomes("NLST", dst, <<>>, <<>>, sess[p].cwd) :
          /\ Issue(p, "NLST", dst, <<>>, o)
          /\ IF o.res = "ok" \/ ProbeCaught(o.res)
               THEN /\ loc' = [loc EXCEPT ![p].result = o.ret]
                    /\ Goto(p, IF o.ret # <<>> THEN "mv_dele" ELSE "mv_rename")
                    /\ UNCHANGED out
               ELSE Raise(p, Raised(o.res)) /\ UNCHANGED loc
  /\ UNCHANGED <<cfg, dialect, conns, nextSid, opsLeft, op, sess, prev>>

\* MvDelete, had the failure of the delete been passed over
MvDeleteIgnoringFailure(p) ==
  /\ pc[p] = "mv_dele"
  /\ LET dst == dest_file_path(p)
     IN \E o \in Outcomes("DELE", dst, <<>>, <<>>, sess[p].cwd) :
          /\ Issue(p, "DELE", dst, <<>>, o)
          /\ Goto(p, "mv_rename")
          /\ UNCHANGED out
  /\ UNCHANGED <<cfg, dialect, conns, nextSid, opsLeft, op, sess, loc, prev>>

\* if result: client.delete(dest_file_path)
MvDelete(p) ==
  /\ pc[p] = "mv_dele"
  /\ LET dst == dest_file_path(p)
     IN \E o \in Outcomes("DELE", dst, <<>>, <<>>, sess[p].cwd) :
          /\ Issue(p, "DELE", dst, <<>>, o)
          /\ IF o.res = "ok"
               THEN Goto(p, "mv_rename") /\ UNCHANGED out
               ELSE Raise(p, Raised(o.res))
  /\ UNCHANGED <<cfg, dialect, conns, nextSid, opsLeft, op, sess, loc, prev>>

\* client.rename(fp(ftp_file), fp(dest_file_path)), then the next file
MvRename(p) ==
  /\ pc[p] = "mv_rename"
  /\ LET src == _fullpath(MvFile(p))
         dst == _fullpath(dest_file_path(p))
     IN \E o \in Outcomes("RENAME", src, dst, <<>>, sess[p].cwd) :
          /\ Issue(p, "RENAME", src, dst, o)
          /\ IF o.res = "ok"
               THEN IF loc[p].i + 1 < Len(op[p].files)
                      THEN /\ loc' = [loc EXCEPT ![p].i = @ + 1, ![p].result = <<>>]
                           /\ Goto(p, "mv_nlst")
                           /\ UNCHANGED out
                      ELSE Goto(p, "exit") /\ UNCHANGED <<out, loc>>
               ELSE Raise(p, Raised(o.res)) /\ UNCHANGED loc
  /\ UNCHANGED <<cfg, dialect, conns, nextSid, opsLeft, op, sess, prev>>

\* ----------------------------------------------------------------- delete
\* return client.delete(full_path)
DelDelete(p) ==
  /\ pc[p] = "del_dele"
  /\ LET full == _fullpath(op[p].path)
     IN \E o \in Outcomes("DELE", full, <<>>, <<>>, sess[p].cwd) :
          /\ Issue(p, "DELE", full, <<>>, o)
          /\ IF o.res = "ok"
               THEN Goto(p, "exit") /\ UNCHANGED out
               ELSE Raise(p, Raised(o.res))
  /\ UNCHANGED <<cfg, dialect, conns, nextSid, opsLeft, op, sess, loc, prev>>

\* -------------------------------------------------------- validate_config
\* client.getwelcome(): the banner stored by connect
Welcome(p) ==
  /\ pc[p] = "welcome"
  /\ Local(p, "getwelcome")
  /\ Goto(p, "exit")
  /\ UNCHANGED <<cfg, dialect, dirs, files, conns, nextSid, faultsLeft, opsLeft,
                 op, sess, out, loc, prev>>

\* the assignments to sock made on the session so far, beyond connect and close
Assigned(p) == Len(SelectSeq(log[p], LAMBDA e : e.cmd = "sock="))

\* client.sock = value on a yielded implicit-TLS client, value a plain socket
\* or an SSLSocket
SetSock(p, value) ==
  /\ pc[p] = "welcome"
  /\ sess[p].cls = "ImplicitFTPTLS"
  /\ Assigned(p) < MaxAssign
  /\ sess' = [sess EXCEPT ![p].sock = AssignSock(sess[p].cls, value)]
  /\ log' = [log EXCEPT ![p] = Append(@, [cmd |-> "sock=", a |-> <<value.kind>>,
                                          b |-> <<>>, res |-> "ok", ret |-> <<>>,
                                          spur |-> FALSE])]
  /\ UNCHANGED <<cfg, dialect, dirs, files, conns, nextSid, faultsLeft, opsLeft,
                 pc, op, out, loc, prev>>

\* ------------------------------------------------------------ the system
Next ==
  \E p \in Procs :
    \/ \E o \in OpChoices : Start(p, o)
    \/ Connect(p)
    \/ Login(p)
    \/ ProtPStep(p)
    \/ SetPasv(p)
    \/ Mkdirs(p)
    \/ AddCwd(p)
    \/ AddStor(p)
    \/ GetRetr(p)
    \/ ListNlst(p)
    \/ MvNlst(p)
    \/ MvDelete(p)
    \/ MvRename(p)
    \/ DelDelete(p)
    \/ Welcome(p)
    \/ \E v \in {PlainSock, SslSock} : SetSock(p, v)
    \/ Exit(p)

Spec == Init /\ [][Next]_vars

\* ------------------------------------------------------ concurrent callers
\* Two callers at once, each with its own session, each adding one file under
\* the directory c, which does not exist; their client calls interleave freely.
ConcPath(p) == IF p = 1 THEN <<"c", "/", "x">> ELSE <<"c", "/", "z">>

InitConc ==
  /\ cfg \in Configs
  /\ dialect \in Dialects
  /\ dirs = InitDirs
  /\ files = InitFiles
  /\ conns = {}
  /\ nextSid = 0
  /\ faultsLeft = MaxFaults
  /\ opsLeft = Cardinality(Procs)
  /\ op = [p \in Procs |-> NoOp]
  /\ sess = [p \in Procs |-> NoSess]
  /\ log = [p \in Procs |-> <<>>]
  /\ out = [p \in Procs |-> NoOut]
  /\ loc = [p \in Procs |-> NoLoc]
  /\ prev = [p \in Procs |-> NoPrev]
  /\ pc = [p \in Procs |-> "idle"]

\* a caller calls add
StartAdd(p) ==
  /\ pc[p] = "idle"
  /\ \E d \in Contents : Start(p, OpRec("add", ConcPath(p), d, <<>>, <<>>))

NextConc ==
  \E p \in Procs :
    \/ StartAdd(p)
    \/ Connect(p)
    \/ Login(p)
    \/ ProtPStep(p)
    \/ SetPasv(p)
    \/ AddCwd(p)
    \/ Mkdirs(p)
    \/ AddStor(p)
    \/ Exit(p)

SpecConc == InitConc /\ [][NextConc]_vars


\* ================================================================ claims
Running(p) == pc[p] \notin {"idle", "done", "off"}

\* C1: every operation constructs exactly one client (the sessions made are as
\* many as the operations started), a finished operation leaves its session
\* closed whatever it met, the only connections open are those of operations
\* still running, and an operation never works on the session of the one
\* before it.
C1_OneSessionPerOperation ==
  /\ nextSid = OpsFor(cfg) - opsLeft
  /\ conns \subseteq {sess[p].sid : p \in {q \in Procs : Running(q)}}
  /\ \A p \in Procs :
       /\ pc[p] = "done" => sess[p].sock = NoSock /\ sess[p].sid \notin conns
       /\ ~Running(p) => sess[p].sock = NoSock
       /\ prev[p].kind # "none" => sess[p].sid # prev[p].sid

\* a second operation whose body failed on an open connection and whose QUIT
\* failed as well has finished
C1_Witness ==
  /\ pc[1] = "done"
  /\ prev[1].kind # "none"
  /\ out[1].err # NoErr
  /\ Called(log[1], "connect", "ok")
  /\ \E k \in 1..Len(log[1]) : log[1][k].cmd = "quit" /\ log[1][k].res = "FtpError"

\* C2: with ftp_encryption "tls" and ftp_security sslv2 or sslv3, an operation
\* ends at once with the UserError that carries the deprecation text of the
\* preference, and no call was made on the client: no connect, no login, no
\* socket, no connection at the server.
C2_DisabledSecurityRejected ==
  \A p \in Procs :
    (op[p].kind # "none" /\ cfg.enc = "tls" /\ cfg.security \in {"sslv2", "sslv3"})
      => /\ pc[p] = "done"
         /\ out[p].err = [type |-> "UserError",
                          cause |-> FTP_SECURITY_TO_PROTOCOL[cfg.security]]
         /\ log[p] = <<>>
         /\ sess[p].sock = NoSock
         /\ conns = {}

\* an operation on an implicit-TLS backend with sslv3 has been rejected
C2_Witness ==
  /\ cfg.enc = "tls" /\ cfg.security = "sslv3"
  /\ op[1].kind = "validate_config"
  /\ pc[1] = "done"
  /\ out[1].err.type = "UserError"


\* the caller's finished operation is a get of the path that its previous
\* operation, an add, wrote, neither having met a failure unrelated to the
\* file tree, and the add having found the parent directory (cwd succeeded)
\* or having made it through ftp_mkdirs on a transport that reports a missing
\* directory as ENOENT
AddThenGet(p) ==
  /\ pc[p] = "done"
  /\ op[p].kind = "get"
  /\ prev[p].kind = "add"
  /\ prev[p].path = op[p].path
  /\ prev[p].clean
  /\ ~Faulted(log[p])
  /\ prev[p].cwd \/ (dialect = "oserror" /\ prev[p].mkd)

\* C3: add(p, data) followed by get(p) returns exactly data, the parent
\* directory of p having existed before the add or having been made by it.
C3_RoundTrip ==
  \A p \in Procs :
    AddThenGet(p) => out[p].err = NoErr /\ out[p].result = prev[p].data


\* the calls of the log that are cmd
CallsOf(l, cmd) == SelectSeq(l, LAMBDA e : e.cmd = cmd)

\* the operation is over and the QUIT of its session, if one was sent, went well
DoneQuitOk(p) ==
  /\ pc[p] = "done"
  /\ ~\E k \in 1..Len(log[p]) : log[p][k].cmd = "quit" /\ log[p][k].res # "ok"

\* the listing call e failed because the path does not exist: the server
\* refused it for that reason, or the failure says so (ENOENT)
NotExisting(e) == e.res # "ok" /\ (~e.spur \/ e.res = "OSError_ENOENT")

\* C4: list returns an empty sequence, not an error, when the listing fails
\* because the path does not exist; every other failure of the listing
\* propagates; a listing that succeeds is returned as the server gave it.
C4_ListContract ==
  \A p \in Procs :
    (DoneQuitOk(p) /\ op[p].kind = "list" /\ CallsOf(log[p], "NLST") # <<>>)
      => LET e == CallsOf(log[p], "NLST")[1]
         IN  /\ e.res = "ok" => out[p].err = NoErr /\ out[p].result = e.ret
             /\ NotExisting(e) => out[p].err = NoErr /\ out[p].result = <<>>
             /\ (e.res # "ok" /\ ~NotExisting(e)) => out[p].err = Raised(e.res)


\* move_files is the caller's first operation: the tree it started on is the
\* initial one
FirstMove(p) == op[p].kind = "move_files" /\ prev[p].kind = "none"

\* the k-th file of the batch, where it is and where it is to go, as the
\* server names them
SrcOf(p, k) == Resolve(Root, _fullpath(op[p].files[k]))

DstOf(p, k) == Resolve(Root, _fullpath(join(op[p].dest, basename(op[p].files[k]))))

\* C5: when the destination of a file of the batch holds a file already and no
\* command fails, that file is deleted and then the source renamed onto it:
\* afterwards the destination holds the content of the source and the source
\* is gone; a delete of a destination never comes after the rename onto it.
C5_MoveOverwrites ==
  \A p \in Procs :
    (pc[p] = "done" /\ FirstMove(p) /\ log[p] # <<>> /\ ~Dirty(log[p]))
      => \A k \in 1..Len(op[p].files) :
           DstOf(p, k) \in DOMAIN InitFiles
             => /\ \E i, j \in 1..Len(log[p]) :
                     /\ i < j
                     /\ log[p][i].cmd = "DELE"
                     /\ Resolve(Root, log[p][i].a) = DstOf(p, k)
                     /\ log[p][j].cmd = "RENAME"
                     /\ Resolve(Root, log[p][j].a) = SrcOf(p, k)
                     /\ Resolve(Root, log[p][j].b) = DstOf(p, k)
                /\ ~\E i, j \in 1..Len(log[p]) :
                     /\ i < j
                     /\ log[p][i].cmd = "RENAME"
                     /\ log[p][j].cmd = "DELE"
                     /\ Resolve(Root, log[p][j].a) = Resolve(Root, log[p][i].b)
                /\ DstOf(p, k) \in DOMAIN files
                /\ files[DstOf(p, k)] = InitFiles[SrcOf(p, k)]
                /\ SrcOf(p, k) \notin DOMAIN files


\* the index in the log of the first failed delete or rename, 0 if none
FailedMoveStep(l) ==
  LET bad == {k \in 1..Len(l) : l[k].cmd \in {"DELE", "RENAME"} /\ l[k].res # "ok"}
  IN  IF bad = {} THEN 0 ELSE CHOOSE k \in bad : \A m \in bad : k <= m

\* the sources of the renames of the log, in the order they were issued
Renamed(l) == [k \in 1..Len(CallsOf(l, "RENAME")) |-> CallsOf(l, "RENAME")[k].a]

\* the files of the batch and their destinations are all different paths: no
\* file of the batch is moved onto another file of the batch or onto itself
Separate(p) ==
  Cardinality({SrcOf(p, k) : k \in 1..Len(op[p].files)}
                \cup {DstOf(p, k) : k \in 1..Len(op[p].files)})
    = 2 * Len(op[p].files)

Made(l) ==
  LET ok == SelectSeq(l, LAMBDA e : e.cmd = "MKD" /\ e.res = "ok")
  IN  [k \in 1..Len(ok) |-> ok[k].a]

\* the path and its ancestors, nearest the root first: "c", "c/d", "c/d/e"
RECURSIVE Chain(_)
Chain(path) == IF path = <<>> THEN <<>> ELSE Append(Chain(dirname(path)), path)

\* ftp_mkdirs was called, as the caller's first operation, on a relative path
\* none of whose components exists in the initial tree, on a transport that
\* reports a missing parent as ENOENT, and has returned; no call failed for a
\* reason unrelated to the tree
MkdirsFromNothing(p) ==
  /\ op[p].kind = "ftp_mkdirs" /\ prev[p].kind = "none"
  /\ pc[p] \in {"exit", "done"}
  /\ dialect = "oserror"
  /\ ~Faulted(log[p])
  /\ Called(log[p], "login", "ok")
  /\ op[p].path # <<>> /\ ~StartsWithSep(op[p].path)
  /\ \A k \in 1..Len(Chain(op[p].path)) :
       Resolve(Root, Chain(op[p].path)[k]) \notin InitDirs

\* C7: ftp_mkdirs on "c/d/e", none of c, c/d, c/d/e existing, on a server that
\* reports a missing parent as ENOENT: the three directories exist afterwards
\* and were made parents first, c, then c/d, then c/d/e, no error raised.
C7_MkdirsParentFirst ==
  \A p \in Procs :
    MkdirsFromNothing(p)
      => /\ Made(log[p]) = Chain(op[p].path)
         /\ \A k \in 1..Len(Chain(op[p].path)) :
              Resolve(Root, Chain(op[p].path)[k]) \in dirs
         /\ pc[p] = "exit" => out[p].err = NoErr

\* ftp_mkdirs("c/d/e") has returned after making three directories
C7_Witness ==
  /\ MkdirsFromNothing(1)
  /\ op[1].path = <<"c", "/", "d", "/", "e">>
  /\ Len(Made(log[1])) = 3
  /\ pc[1] = "done"

\* ftp_mkdirs is called on a path that exists with all its ancestors: in the
\* initial tree, or because the caller's previous operation was a successful
\* ftp_mkdirs on it; no call failed for a reason unrelated to the tree
MkdirsAgain(p) ==
  /\ op[p].kind = "ftp_mkdirs"
  /\ pc[p] \in {"exit", "done"}
  /\ ~Faulted(log[p])
  /\ Called(log[p], "login", "ok")
  /\ \/ prev[p].kind = "none" /\ Resolve(Root, op[p].path) \in InitDirs
     \/ /\ prev[p].kind = "ftp_mkdirs" /\ prev[p].path = op[p].path
        /\ prev[p].err = NoErr /\ prev[p].clean

\* C8: ftp_mkdirs on a path whose directory and ancestors all exist succeeds
\* without error (and leaves the tree as it was).
C8_MkdirsIdempotent ==
  \A p \in Procs :
    MkdirsAgain(p)
      => /\ out[p].err = NoErr
         /\ prev[p].kind = "none" => dirs = InitDirs


\* C9: the socket stored in an implicit-TLS session is None or a TLS-wrapped
\* socket with exactly one TLS layer, whatever has been assigned to sock: a
\* plain socket is wrapped before it is stored, an SSLSocket is stored as it is.
C9_ImplicitSockWrapped ==
  \A p \in Procs :
    sess[p].cls = "ImplicitFTPTLS"
      => \/ sess[p].sock = NoSock
         \/ sess[p].sock.kind = "ssl" /\ sess[p].sock.layers = 1

\* after connect, an SSLSocket and then a plain socket were assigned to sock
C9_Witness ==
  /\ sess[1].cls = "ImplicitFTPTLS"
  /\ Len(CallsOf(log[1], "sock=")) = 2
  /\ CallsOf(log[1], "sock=")[1].a = <<"ssl">>
  /\ CallsOf(log[1], "sock=")[2].a = <<"plain">>
  /\ sess[1].sock = SslSock

\* C10: in add, a failure of the upload (storbinary) leaves the body of add as
\* ValueError wrapping the failure, and reaches the caller as that when the
\* QUIT of the session goes well, never as another type; the session is
\* closed when add is over.
C10_UploadErrorIsValueError ==
  \A p \in Procs :
    (op[p].kind = "add" /\ pc[p] \in {"exit", "done"}
       /\ \E k \in 1..Len(log[p]) : log[p][k].cmd = "STOR" /\ log[p][k].res # "ok")
      => /\ (pc[p] = "exit" \/ DoneQuitOk(p))
              => out[p].err = Wrapped("ValueError", CallsOf(log[p], "STOR")[1].res)
         /\ pc[p] = "done" => sess[p].sock = NoSock


\* the commands that work on the server's file tree
FileCmds == {"CWD", "MKD", "STOR", "RETR", "NLST", "DELE", "RENAME"}

\* the steps of ftp() that open the session
OpenSteps == {"connect", "login", "prot_p"}

\* the step cmd of the session failed
FailedAt(l, cmd) == \E k \in 1..Len(l) : l[k].cmd = cmd /\ l[k].res # "ok"

\* C11: validate_config opens a session and only reads the welcome banner (no
\* command on the file tree), and a failure of connect, login or prot_p
\* reaches the caller as the configuration error, UserError.
C11_ValidateConfigErrors ==
  \A p \in Procs :
    (op[p].kind = "validate_config" /\ pc[p] \in {"exit", "done"} /\ log[p] # <<>>)
      => /\ \A k \in 1..Len(log[p]) : log[p][k].cmd \notin FileCmds
         /\ ((\E c \in OpenSteps : FailedAt(log[p], c))
               /\ (pc[p] = "exit" \/ DoneQuitOk(p)))
              => out[p].err.type = "UserError"

\* C12: a failure of login reaches the caller as AuthenticationError, and the
\* session is not yielded: no prot_p, set_pasv or command on the file tree
\* follows on it, only the QUIT that closes it.
C12_LoginFailureIsAuthenticationError ==
  \A p \in Procs :
    (FailedAt(log[p], "login") /\ pc[p] \in {"exit", "done"})
      => /\ \A k \in 1..Len(log[p]) : log[p][k].cmd \in {"connect", "login", "quit"}
         /\ out[p].err # NoErr
         /\ (pc[p] = "exit" \/ DoneQuitOk(p)) => out[p].err.type = "AuthenticationError"

\* C13: closing the session never raises: whatever QUIT met, what the caller
\* gets is what the body of the operation had raised, or nothing if it had
\* raised nothing.
C13_CloseNeverRaises ==
  \A p \in Procs :
    (pc[p] = "done" /\ CallsOf(log[p], "quit") # <<>>) => out[p].err = out[p].body

\* the path and the directories above it, as os.path.dirname gives them
RECURSIVE Ancestors(_)
Ancestors(q) == IF dirname(q) = q THEN {q} ELSE {q} \cup Ancestors(dirname(q))

\* the resolved destination of the k-th file of a batch
FullDest(p, k) == _fullpath(join(op[p].dest, basename(op[p].files[k])))

\* the path arguments of the call e of an operation o of caller p are resolved
\* paths: the full path of the operation's argument, for cwd and mkd its
\* directory or a directory above that, for move_files the full paths of a
\* file of the batch and of its destination
ResolvedArgs(p, e) ==
  LET full == _fullpath(op[p].path)
  IN  CASE op[p].kind = "add" ->
             IF e.cmd \in {"CWD", "MKD"} THEN e.a \in Ancestors(dirname(full))
             ELSE e.a = full
        [] op[p].kind \in {"get", "list", "delete"} -> e.a = full
        [] op[p].kind = "move_files" ->
             \E k \in 1..Len(op[p].files) :
               IF e.cmd = "RENAME"
                 THEN e.a = _fullpath(op[p].files[k]) /\ e.b = FullDest(p, k)
                 ELSE e.a = FullDest(p, k)

\* C14: every path argument of every command that add, get, list, move_files
\* and delete issue is a path resolved through _fullpath; the probe and the
\* delete of move_files address the path that the rename writes to.
C14_PathsResolved ==
  \A p \in Procs :
    op[p].kind \in {"add", "get", "list", "move_files", "delete"}
      => \A k \in 1..Len(log[p]) :
           log[p][k].cmd \in FileCmds => ResolvedArgs(p, log[p][k])

\* C15: ftp_mkdirs terminates for every path and every server: each recursive
\* call is on a strictly shorter path than the call that made it, and the
\* recursion never runs until the interpreter stops it with RecursionError.
C15_MkdirsTerminates ==
  \A p \in Procs :
    /\ out[p].err.type # "RecursionError"
    /\ \A k \in 1..(Len(loc[p].stack) - 1) :
         Len(loc[p].stack[k + 1].path) < Len(loc[p].stack[k].path)

\* the k-th call of the log is the mkd that a call of ftp_mkdirs issues after
\* its parent was ensured: the one that follows a mkd that succeeded
IsRetry(l, k) == k > 1 /\ l[k - 1].cmd = "MKD" /\ l[k - 1].res = "ok"

\* the k-th call of the log is a mkd that failed otherwise than by a missing
\* path component, or the failed mkd after the parent was ensured
MkdFailedForGood(l, k) ==
  /\ l[k].cmd = "MKD" /\ l[k].res # "ok"
  /\ l[k].res # "OSError_ENOENT" \/ IsRetry(l, k)

\* C16: in ftp_mkdirs a failure of mkd other than ENOENT, and any failure of
\* the mkd issued after the parent was ensured, is raised as it is: no mkd
\* follows it, for no path, and it is what the body of the operation raises.
C16_MkdirsFailurePropagates ==
  \A p \in Procs :
    \A k \in 1..Len(log[p]) :
      MkdFailedForGood(log[p], k)
        => /\ \A j \in (k + 1)..Len(log[p]) : log[p][j].cmd = "quit"
           /\ pc[p] \in {"exit", "done"}
           /\ pc[p] = "exit" => out[p].err = Raised(log[p][k].res)
           /\ pc[p] = "done" => out[p].body = Raised(log[p][k].res)

\* ftp_mkdirs("c/d/e") made c, then the mkd of c/d after it failed, and the
\* operation is over
C16_Witness ==
  /\ op[1].kind = "ftp_mkdirs" /\ op[1].path = <<"c", "/", "d", "/", "e">>
  /\ pc[1] = "done"
  /\ \E k \in 1..Len(log[1]) :
       /\ IsRetry(log[1], k) /\ MkdFailedForGood(log[1], k)
       /\ log[1][k].a = <<"c", "/", "d">>

\* C17: in move_files a failed probe of the destination is never an error:
\* whatever the failure of the listing call, no delete is issued and the next
\* call of the session is the rename of the file.
C17_FailedProbeIsNoConflict ==
  \A p \in Procs :
    op[p].kind = "move_files"
      => \A k \in 1..Len(log[p]) :
           (log[p][k].cmd = "NLST" /\ log[p][k].res # "ok")
             => IF k = Len(log[p])
                  THEN pc[p] = "mv_rename" /\ out[p].err = NoErr
                  ELSE log[p][k + 1].cmd = "RENAME"

\* the steps that open a session of the backend, in order: prot_p for implicit
\* and explicit TLS only, set_pasv with the passive flag only
OpenOrder ==
  <<"connect", "login">>
    \o (IF cfg.enc \in {"tls", "tls_explicit"} THEN <<"prot_p">> ELSE <<>>)
    \o (IF cfg.passive THEN <<"set_pasv">> ELSE <<>>)

\* C18: in every session the calls are connect, login, prot_p (exactly for
\* implicit and explicit TLS), set_pasv (exactly with the passive flag), in
\* that order, then the commands of the operation, which are issued only when
\* every open step before them succeeded; a step that fails is followed by
\* nothing but the QUIT of the session.
C18_OpenOrder ==
  \A p \in Procs :
    LET l == log[p]
        n == Len(OpenOrder)
    IN  \A k \in 1..Len(l) :
          /\ k <= n => l[k].cmd \in {OpenOrder[k], "quit"}
          /\ (k > n /\ l[k].cmd # "quit")
               => /\ l[k].cmd \notin (OpenSteps \cup {"set_pasv"})
                  /\ \A j \in 1..n : l[j].cmd = OpenOrder[j] /\ l[j].res = "ok"
          /\ l[k].cmd = "quit" => k = Len(l)
          /\ (l[k].cmd \in OpenSteps /\ l[k].res # "ok")
               => \A j \in (k + 1)..Len(l) : l[j].cmd = "quit"

\* a get on an explicit-TLS backend in passive mode is over: connect, login,
\* prot_p, set_pasv, RETR, QUIT
C18_Witness ==
  /\ cfg.enc = "tls_explicit" /\ cfg.passive
  /\ op[1].kind = "get" /\ pc[1] = "done"
  /\ Len(log[1]) = 6
  /\ log[1][3].cmd = "prot_p" /\ log[1][4].cmd = "set_pasv"
  /\ log[1][5].cmd = "RETR" /\ log[1][5].res = "ok"

\* the content the k-th file of the batch had when the batch began is on the
\* server at the file's path or at its destination
ContentKept(p, k) ==
  \E q \in {SrcOf(p, k), DstOf(p, k)} :
    q \in DOMAIN files /\ files[q] = InitFiles[SrcOf(p, k)]

\* C19: at every point of a move_files batch, also after it was aborted and
\* also when two files of the batch go to the same destination, the content
\* of every file named in the batch is on the server, at the file's path or
\* at its destination.
C19_MoveKeepsContent ==
  \A p \in Procs :
    FirstMove(p)
      => \A k \in 1..Len(op[p].files) :
           SrcOf(p, k) \in DOMAIN InitFiles => ContentKept(p, k)

\* the path on the server of the file that caller p adds
ConcFile(p) == Resolve(Root, _fullpath(ConcPath(p)))

\* both callers have finished an add whose cwd found the directory missing
\* (IOError ENOENT), on a server that lets directories be made, and no call
\* of either failed for a reason unrelated to the file tree
BothAddsOver ==
  /\ dialect = "oserror"
  /\ \A p \in Procs :
       /\ pc[p] = "done" /\ op[p].kind = "add"
       /\ Called(log[p], "CWD", "OSError_ENOENT")
       /\ ~Faulted(log[p])

\* C20: two adds of different files under the same directory, not existing
\* yet, run at once, each in its own session: under every interleaving both
\* succeed and both files are stored.
C20_ConcurrentAddsIndependent ==
  BothAddsOver
    => \A p \in Procs :
         /\ out[p].err = NoErr
         /\ ConcFile(p) \in DOMAIN files
         /\ files[ConcFile(p)] = op[p].data

====
